---- MODULE Spec2Model ----
(***************************************************************************)
(* Serving shell of openvino/server.py: the FastAPI application with its   *)
(* three lazily loaded model slots, the idle-restart watchdog built on     *)
(* threading.Timer, the API-key dependency and the route handlers.         *)
(*                                                                         *)
(* Execution model.  uvicorn runs one process with one event-loop thread.  *)
(* Every handler is an `async def`; the code between two awaits runs       *)
(* without interleaving of other requests.  The loaders and the engines    *)
(* are called synchronously, so they keep the event-loop thread for as     *)
(* long as they last (loopOwner).  The watchdog callback runs on the       *)
(* thread of threading.Timer and is therefore independent of the loop.     *)
(* Time is discrete and kept as elapsed times; it advances only while the   *)
(* loop has nothing to run or is kept by a loader or an engine call.       *)
(***************************************************************************)
EXTENDS Integers, FiniteSets, Sequences, TLC

\* ---------------------------------------------------------------- bounds
MaxReqs == 2
MaxDet == 2

\* ------------------------------------------------------------- constants
api_auth_key == "mt_photos_ai_extra"
\* SERVER_RESTART_TIME, in model time units
server_restart_time == 2
\* largest accepted width and height of /ocr
MaxSide == 10000

Reqs == 1..MaxReqs
\* elapsed times are counted up to one unit past the idle window
Long == server_restart_time + 1

\* keys a client may supply in the api-key header
Keys == {api_auth_key, "mt_photos_ai"}

Kinds == {"OCR", "ClipImage", "ClipText"}

ProtectedRoutes == {"/check", "/restart", "/restart_v2", "/ocr", "/clip/img", "/clip/txt"}
InferenceRoutes == {"/ocr", "/clip/img", "/clip/txt"}
ImageRoutes == {"/ocr", "/clip/img"}
Routes == {"/"} \cup ProtectedRoutes

\* the model kind an inference route works with
Kind(route) ==
  CASE route = "/ocr" -> "OCR"
    [] route = "/clip/img" -> "ClipImage"
    [] route = "/clip/txt" -> "ClipText"
    [] OTHER -> "none"

\* uploaded files: ok = cv2.imdecode can decode it, w and h its size
NoFile == [ok |-> FALSE, w |-> 0, h |-> 0]
Files == {NoFile,
          [ok |-> TRUE, w |-> MaxSide, h |-> MaxSide],
          [ok |-> TRUE, w |-> MaxSide + 1, h |-> MaxSide],
          [ok |-> TRUE, w |-> MaxSide, h |-> MaxSide + 1]}

\* cv2.imdecode: the pixel buffer, or None (isNone) for undecodable bytes
imdecode(file) ==
  IF file.ok THEN [isNone |-> FALSE, width |-> file.w, height |-> file.h]
  ELSE [isNone |-> TRUE, width |-> 0, height |-> 0]

\* ------------------------------------------------------- normalisation
\* Numbers are the engine's floats, held in thousandths (3141 is 3.141).
\* A rendered number is its digits: the whole part and the digits after
\* the decimal point.

\* round(num, 2) and the rounding of `:.2f`, in hundredths; the values the
\* engines below return have no third decimal 5, where the binary float
\* decides the direction
Round2(n) == (n + 5) \div 10

\* the digits d1 d2 of a number of hundredths
TwoDigits(h) == <<(h \div 10) % 10, h % 10>>

\* str() of a float prints the shortest digits that give the float back,
\* with one digit after the point at least: 10.0, 3.5, 3.14
str(h) ==
  [whole |-> h \div 100,
   frac |-> IF h % 10 = 0 THEN <<(h \div 10) % 10>> ELSE TwoDigits(h)]

\* to_fixed
to_fixed(num) == str(Round2(num))

\* f"{res_i[2]:.2f}"
format_2f(num) == [whole |-> Round2(num) \div 100, frac |-> TwoDigits(Round2(num))]

\* "{:.16f}".format(vec)
format_16f(num) ==
  [whole |-> num \div 1000,
   frac |-> [i \in 1..16 |-> CASE i = 1 -> (num \div 100) % 10
                               [] i = 2 -> (num \div 10) % 10
                               [] i = 3 -> num % 10
                               [] OTHER -> 0]]

\* Raw detection tuples (quadrilateral, text, confidence) of the OCR engine.
\* fields tells how much of the tuple is there: 3 a whole tuple, 2 no usable
\* confidence, 1 no text either.  x0, y0 is the first corner, x1 the x of
\* the second, y2 the y of the third.
DetA == [fields |-> 3, x0 |-> 10000, y0 |-> 3500, x1 |-> 13141, y2 |-> 4734,
         text |-> "a", score |-> 987]
DetB == [fields |-> 3, x0 |-> 1234, y0 |-> 0, x1 |-> 1734, y2 |-> 10000,
         text |-> "b", score |-> 500]
Dets == {DetA, DetB, [DetA EXCEPT !.fields = 2], [DetB EXCEPT !.fields = 1]}

\* sequences of detections up to MaxDet
DetSeqs == UNION {[1..n -> Dets] : n \in 0..MaxDet}

\* what an engine call returns: `_result[0]` of rapid_ocr (None, or the
\* detections) and the vector of clip.process_image / clip.process_txt
NoResult == [isNone |-> TRUE, dets |-> <<>>, vec |-> <<>>]
OcrResults == {NoResult} \cup {[isNone |-> FALSE, dets |-> d, vec |-> <<>>] : d \in DetSeqs}
Vectors == {<<10000, 3141>>, <<3500>>}
ClipResults == {[isNone |-> FALSE, dets |-> <<>>, vec |-> v] : v \in Vectors}
EngineResults == OcrResults \cup ClipResults
\* one engine result of each shape: None, detections, a malformed
\* detection, a vector
ShapeResults ==
  {NoResult,
   [isNone |-> FALSE, dets |-> <<DetA>>, vec |-> <<>>],
   [isNone |-> FALSE, dets |-> <<[DetA EXCEPT !.fields = 2]>>, vec |-> <<>>],
   [isNone |-> FALSE, dets |-> <<>>, vec |-> <<10000, 3141>>]}

\* the `box` dict trans_result builds for one detection
Box(d) == [x |-> to_fixed(d.x0), y |-> to_fixed(d.y0),
           width |-> to_fixed(d.x1 - d.x0), height |-> to_fixed(d.y2 - d.y0)]

\* the body of a response: the lists of an OCR result and the vector of an
\* embedding; raised tells that building it stopped on an exception
NoBody == [texts |-> <<>>, scores |-> <<>>, boxes |-> <<>>, vec |-> <<>>,
           raised |-> FALSE]

\* the loop of trans_result from detection i on: boxes.append, then
\* texts.append(res_i[1]), then scores.append(f"{res_i[2]:.2f}"); a missing
\* element raises where it is read and leaves the lists as they are then
RECURSIVE trans_loop(_, _, _)
trans_loop(dets, i, acc) ==
  IF i > Len(dets) THEN acc
  ELSE LET d == dets[i]
           b == [acc EXCEPT !.boxes = Append(@, Box(d))]
           t == [b EXCEPT !.texts = Append(@, d.text)]
           s == [t EXCEPT !.scores = Append(@, format_2f(d.score))]
       IN IF d.fields = 1 THEN [b EXCEPT !.raised = TRUE]
          ELSE IF d.fields = 2 THEN [t EXCEPT !.raised = TRUE]
          ELSE trans_loop(dets, i + 1, s)

\* trans_result
trans_result(result) ==
  IF result.isNone THEN NoBody ELSE trans_loop(result.dets, 1, NoBody)

\* the response of process_image after the engine call: {'result': result},
\* or the except clause's {'result': [], 'msg': str(e)} when trans_result
\* raised
OcrResponsePartial(tr) == [resp |-> "result", body |-> tr]
OcrResponse(tr) ==
  IF tr.raised THEN [resp |-> "softfail_exc", body |-> [NoBody EXCEPT !.raised = TRUE]]
  ELSE [resp |-> "result", body |-> tr]

\* the response of clip_process_image and clip_process_txt
ClipResponse(result) ==
  [resp |-> "result",
   body |-> [NoBody EXCEPT !.vec = [i \in 1..Len(result.vec) |-> format_16f(result.vec[i])]]]

VARIABLES
  env_auto_load_txt_modal, \* AUTO_LOAD_TXT_MODAL == "on"
  procState,               \* "starting", "startload", "serving", "dead"
  slot,                    \* rapid_ocr, clip_img_model, clip_txt_model (0 = None)
  loaderCalls,             \* calls of each external loader in this process
  restart_timer,           \* id of the Timer the global names (0 = None)
  timers,                  \* the started Timer threads that are still waiting
  loopOwner,               \* 0 = loop free; r = request r keeps the thread
  req,                     \* the requests
  sinceArrive,             \* time since the latest request was sent, up to Long
  closeGaps,               \* every request so far was sent less than the idle window after the one before
  idle                     \* time since the process started or last ran check_activity, up to Long

vars == <<env_auto_load_txt_modal, procState, slot, loaderCalls, restart_timer,
          timers, loopOwner, req, sinceArrive, closeGaps, idle>>

\* A request: what the client sent (route, key, file), where its handling
\* stands (pc), the verdict of verify_header (auth), the response (resp) and
\* what was called on its behalf (work): "load" a loader, "engine" an
\* engine, "raised" the engine raised, "restart" restart_program; reset
\* tells that check_activity has run for it; raw is what the engine call
\* returned and body the content of the response built from it.
\* What the client sent enters the state when the server first reads it:
\* the route when check_activity passes the request on, the key in
\* verify_header, the file after `await file.read()`.
NewReq == [route |-> "unread", key |-> "unread", file |-> NoFile, pc |-> "new",
           auth |-> "pending", resp |-> "none", work |-> {}, reset |-> FALSE,
           raw |-> NoResult, body |-> NoBody]

\* positions of a request the restart of the process cuts off
InFlight == {"queued", "routed", "loading", "read", "engine"}
\* positions from which the event loop can run the request's next step
Runnable == {"queued", "routed", "read"}

\* `return response` of check_activity ends the exchange, and so does the
\* loss of the connection: a request that is answered ("done") or cut off
\* ("lost") shows in the state its last step produces, and the next step of
\* the system keeps no record of it.
Closed == [NewReq EXCEPT !.pc = "closed"]
Live == [r \in Reqs |-> IF req[r].pc \in {"done", "lost"} THEN Closed ELSE req[r]]

NoModels == [k \in Kinds |-> 0]

Init ==
  /\ env_auto_load_txt_modal \in BOOLEAN
  /\ procState = "starting"
  /\ slot = NoModels
  /\ loaderCalls = NoModels
  /\ restart_timer = 0
  /\ timers = {}
  /\ loopOwner = 0
  /\ req = [r \in Reqs |-> NewReq]
  /\ sinceArrive = Long
  /\ closeGaps = TRUE
  /\ idle = 0

\* ------------------------------------------------------ restart_program
\* os.execl replaces the process image: module globals are initialised
\* again, every thread and every connection of the old image is gone.
Dropped(q) == IF q.pc \in InFlight THEN [q EXCEPT !.pc = "lost"] ELSE q

restart_program(reqs) ==
  /\ procState' = "starting"
  /\ slot' = NoModels
  /\ loaderCalls' = NoModels
  /\ restart_timer' = 0
  /\ timers' = {}
  /\ loopOwner' = 0
  /\ req' = [r \in Reqs |-> Dropped(reqs[r])]
  /\ idle' = 0
  /\ UNCHANGED <<env_auto_load_txt_modal, sinceArrive, closeGaps>>

\* --------------------------------------------------------------- loaders
\* `if <slot> is None` of load_ocr_model, load_clip_img_model, load_clip_txt_model
NeedsLoadAlways(k) == TRUE
NeedsLoad(k) == slot[k] = 0

\* the instance a loader returns and the `global` of the load_* function
\* assigns to the slot: the n-th construction of this process
InstanceNone(k) == 0
Instance(k) == loaderCalls[k]

\* --------------------------------------------------------- startup_event
\* `if env_auto_load_txt_modal:` of startup_event
AutoLoadAlways == TRUE
AutoLoad == env_auto_load_txt_modal

StartupEvent ==
  /\ procState = "starting"
  /\ IF AutoLoad /\ NeedsLoad("ClipText")
       THEN /\ procState' = "startload"
            /\ loaderCalls' = [loaderCalls EXCEPT !["ClipText"] = @ + 1]
       ELSE /\ procState' = "serving"
            /\ UNCHANGED loaderCalls
  /\ req' = Live
  /\ UNCHANGED <<env_auto_load_txt_modal, slot, restart_timer, timers,
                 loopOwner, sinceArrive, closeGaps, idle>>

\* clip.load_txt_model() returns in the startup hook
StartupLoadReturn ==
  /\ procState = "startload"
  /\ slot' = [slot EXCEPT !["ClipText"] = Instance("ClipText")]
  /\ procState' = "serving"
  /\ req' = Live
  /\ UNCHANGED <<env_auto_load_txt_modal, loaderCalls, restart_timer,
                 timers, loopOwner, sinceArrive, closeGaps, idle>>

\* clip.load_txt_model() raises in the startup hook: the application
\* start-up fails and uvicorn exits
StartupLoadRaise ==
  /\ procState = "startload"
  /\ procState' = "dead"
  /\ req' = Live
  /\ UNCHANGED <<env_auto_load_txt_modal, slot, loaderCalls, restart_timer,
                 timers, loopOwner, sinceArrive, closeGaps, idle>>

\* ------------------------------------------------------------- requests
\* a client sends request r; it waits in the socket until the loop takes it
Arrive(r) ==
  /\ procState = "serving"
  /\ req[r].pc = "new"
  /\ IF r = 1 THEN TRUE ELSE req[r - 1].pc # "new"
  /\ req' = [Live EXCEPT ![r].pc = "queued"]
  /\ sinceArrive' = 0
  /\ closeGaps' = (closeGaps /\ (r = 1 \/ sinceArrive < server_restart_time))
  /\ UNCHANGED <<env_auto_load_txt_modal, procState, slot, loaderCalls,
                 restart_timer, timers, loopOwner, idle>>

\* restart_timer.cancel()
CancelNothing(ts, id) == ts
Cancel(ts, id) == {t \in ts : t.id # id}

\* threading.Timer(server_restart_time, restart_program)
IntervalLate == server_restart_time + 1
Interval == server_restart_time

\* restart_timer.start(): the new Timer joins the waiting ones
NotStarted(ts, id) == ts
Started(ts, id) == ts \cup {[id |-> id, left |-> Interval]}

\* check_activity, up to `await call_next(request)`, which passes the
\* request on to the handler of its route
check_activity(r, route) ==
  /\ procState = "serving"
  /\ loopOwner = 0
  /\ req[r].pc = "queued"
  /\ LET kept == IF restart_timer # 0 THEN Cancel(timers, restart_timer) ELSE timers
     IN timers' = Started(kept, r)
  /\ restart_timer' = r
  /\ idle' = 0
  /\ req' = [Live EXCEPT ![r] = [@ EXCEPT !.route = route, !.pc = "routed",
                                          !.reset = TRUE]]
  /\ UNCHANGED <<env_auto_load_txt_modal, procState, slot, loaderCalls,
                 loopOwner, sinceArrive, closeGaps>>

\* `api_key != api_auth_key` of verify_header, negated
KeyMatchesPrefix(key) == key \in {api_auth_key, "mt_photos_ai"}
KeyMatches(key) == key = api_auth_key

\* verify_header raises HTTPException(401): the handler body does not run
Unauthorized(q, key) ==
  [q EXCEPT !.key = key, !.auth = "rejected", !.pc = "done", !.resp = "401"]
\* verify_header returns the key: the handler body runs
Authorized(q, key) == [q EXCEPT !.key = key, !.auth = "ok"]

\* top_info
top_info(r) ==
  /\ procState = "serving"
  /\ loopOwner = 0
  /\ req[r].pc = "routed"
  /\ req[r].route = "/"
  /\ req' = [Live EXCEPT ![r] = [@ EXCEPT !.pc = "done", !.resp = "html"]]
  /\ UNCHANGED <<env_auto_load_txt_modal, procState, slot, loaderCalls,
                 restart_timer, timers, loopOwner, sinceArrive, closeGaps,
                 idle>>

\* the routes whose handler calls restart_program()
CallsRestartBoth(route) == route \in {"/restart", "/restart_v2"}
CallsRestart(route) == route = "/restart_v2"

\* verify_header and the three check_req handlers: /check, /restart, /restart_v2
check_req(r, key) ==
  /\ procState = "serving"
  /\ loopOwner = 0
  /\ req[r].pc = "routed"
  /\ req[r].route \in {"/check", "/restart", "/restart_v2"}
  /\ IF KeyMatches(key) /\ CallsRestart(req[r].route)
       THEN restart_program(
              [Live EXCEPT ![r] =
                 [Authorized(@, key) EXCEPT !.work = @ \cup {"restart"}]])
       ELSE /\ req' = [Live EXCEPT ![r] =
                 IF KeyMatches(key)
                   THEN [Authorized(@, key) EXCEPT !.pc = "done", !.resp = "pass"]
                   ELSE Unauthorized(@, key)]
            /\ UNCHANGED <<env_auto_load_txt_modal, procState, slot,
                           loaderCalls, restart_timer, timers, loopOwner,
                           sinceArrive, closeGaps, idle>>

\* ------------------------------------------------------ inference routes
\* who keeps the event-loop thread during `rapid_ocr(img)`,
\* `clip.process_image(img, clip_img_model)` and
\* `clip.process_txt(text, clip_txt_model)`: the calls are synchronous, the
\* calling request keeps it.  (`await predict(...)`, commented out in the
\* source, would hand the call to an executor and free the loop.)
AwaitPredictOwner(r) == 0
SyncCallOwner(r) == r

\* the request enters the engine of its route
EnterEngine(q) == [q EXCEPT !.pc = "engine", !.work = @ \cup {"engine"}]

\* verify_header, then load_ocr_model() / load_clip_img_model() /
\* load_clip_txt_model(), the first statement of the three inference
\* handlers; with the slot loaded the handler goes on to `await file.read()`
\* (image routes) or to the engine call (/clip/txt)
load_model(r, key) ==
  /\ procState = "serving"
  /\ loopOwner = 0
  /\ req[r].pc = "routed"
  /\ req[r].route \in InferenceRoutes
  /\ LET k == Kind(req[r].route) IN
       IF ~KeyMatches(key)
         THEN /\ req' = [Live EXCEPT ![r] = Unauthorized(@, key)]
              /\ UNCHANGED <<loaderCalls, loopOwner>>
         ELSE IF NeedsLoad(k)
           THEN /\ loaderCalls' = [loaderCalls EXCEPT ![k] = @ + 1]
                /\ req' = [Live EXCEPT ![r] =
                     [Authorized(@, key) EXCEPT !.pc = "loading",
                                           !.work = @ \cup {"load"}]]
                /\ loopOwner' = r
           ELSE /\ UNCHANGED loaderCalls
                /\ IF req[r].route \in ImageRoutes
                     THEN /\ req' = [Live EXCEPT ![r] =
                               [Authorized(@, key) EXCEPT !.pc = "read"]]
                          /\ UNCHANGED loopOwner
                     ELSE /\ req' = [Live EXCEPT ![r] = EnterEngine(Authorized(@, key))]
                          /\ loopOwner' = SyncCallOwner(r)
  /\ UNCHANGED <<env_auto_load_txt_modal, procState, slot, restart_timer,
                 timers, sinceArrive, closeGaps, idle>>

\* the external loader returns the instance; the handler goes on to
\* `await file.read()` (image routes) or to the engine call (/clip/txt)
LoaderReturn(r) ==
  /\ req[r].pc = "loading"
  /\ LET k == Kind(req[r].route) IN
       slot' = [slot EXCEPT ![k] = Instance(k)]
  /\ IF req[r].route \in ImageRoutes
       THEN /\ req' = [Live EXCEPT ![r].pc = "read"]
            /\ loopOwner' = 0
       ELSE /\ req' = [Live EXCEPT ![r] = EnterEngine(@)]
            /\ loopOwner' = SyncCallOwner(r)
  /\ UNCHANGED <<env_auto_load_txt_modal, procState, loaderCalls,
                 restart_timer, timers, sinceArrive, closeGaps, idle>>

\* the external loader raises: the slot stays None, the exception leaves
\* the handler (no try around the load_* call) and the client gets a 500
LoaderRaise(r) ==
  /\ req[r].pc = "loading"
  /\ req' = [Live EXCEPT ![r] = [@ EXCEPT !.pc = "done", !.resp = "500"]]
  /\ loopOwner' = 0
  /\ UNCHANGED <<env_auto_load_txt_modal, procState, slot, loaderCalls,
                 restart_timer, timers, sinceArrive, closeGaps, idle>>

\* `if width > 10000 or height > 10000` of process_image
OutOfRange(img) == img.width > MaxSide \/ img.height > MaxSide

\* process_image from the return of `await file.read()` to the engine call
process_image(r, file) ==
  /\ procState = "serving"
  /\ loopOwner = 0
  /\ req[r].pc = "read"
  /\ req[r].route = "/ocr"
  /\ LET img == imdecode(file) IN
       IF img.isNone
         THEN \* `img.shape` raises AttributeError, caught by the except
              /\ req' = [Live EXCEPT ![r] = [@ EXCEPT !.file = file, !.pc = "done",
                                                      !.resp = "softfail_exc"]]
              /\ UNCHANGED loopOwner
         ELSE IF OutOfRange(img)
           THEN /\ req' = [Live EXCEPT ![r] = [@ EXCEPT !.file = file, !.pc = "done",
                                                        !.resp = "softfail_bounds"]]
                /\ UNCHANGED loopOwner
           ELSE /\ req' = [Live EXCEPT ![r] = EnterEngine([@ EXCEPT !.file = file])]
                /\ loopOwner' = SyncCallOwner(r)
  /\ UNCHANGED <<env_auto_load_txt_modal, procState, slot, loaderCalls,
                 restart_timer, timers, sinceArrive, closeGaps, idle>>

\* clip_process_image from the return of `await file.read()` to the engine
\* call: the decoded image, None included, goes to clip.process_image
clip_process_image(r, file) ==
  /\ procState = "serving"
  /\ loopOwner = 0
  /\ req[r].pc = "read"
  /\ req[r].route = "/clip/img"
  /\ req' = [Live EXCEPT ![r] = EnterEngine([@ EXCEPT !.file = file])]
  /\ loopOwner' = SyncCallOwner(r)
  /\ UNCHANGED <<env_auto_load_txt_modal, procState, slot, loaderCalls,
                 restart_timer, timers, sinceArrive, closeGaps, idle>>

\* the engine call returns raw; the handler builds its response
\* (clip.process_image does not return a vector for the image None)
EngineReturn(r, raw) ==
  /\ req[r].pc = "engine"
  /\ ~(req[r].route = "/clip/img" /\ imdecode(req[r].file).isNone)
  /\ raw \in IF req[r].route = "/ocr" THEN OcrResults ELSE ClipResults
  /\ LET out == IF req[r].route = "/ocr" THEN OcrResponse(trans_result(raw))
                ELSE ClipResponse(raw)
     IN req' = [Live EXCEPT ![r] = [@ EXCEPT !.pc = "done", !.raw = raw,
                                             !.resp = out.resp, !.body = out.body]]
  /\ loopOwner' = 0
  /\ UNCHANGED <<env_auto_load_txt_modal, procState, slot, loaderCalls,
                 restart_timer, timers, sinceArrive, closeGaps, idle>>

\* the routes whose engine call is inside a try/except Exception
Catches(route) == route \in ImageRoutes

\* the engine call raises
EngineRaise(r) ==
  /\ req[r].pc = "engine"
  /\ req' = [Live EXCEPT ![r] =
       [@ EXCEPT !.pc = "done", !.work = @ \cup {"raised"},
                 !.resp = IF Catches(req[r].route) THEN "softfail_exc" ELSE "500"]]
  /\ loopOwner' = 0
  /\ UNCHANGED <<env_auto_load_txt_modal, procState, slot, loaderCalls,
                 restart_timer, timers, sinceArrive, closeGaps, idle>>

\* ------------------------------------------------------------- watchdog
\* a Timer thread wakes up after its interval and calls restart_program
TimerFire ==
  /\ \E t \in timers : t.left = 0
  /\ restart_program(Live)

\* ----------------------------------------------------------------- time
\* the loop has a step it can take at once
LoopReady ==
  \/ procState = "starting"
  \/ procState = "serving" /\ loopOwner = 0 /\ \E r \in Reqs : req[r].pc \in Runnable

Older(t) == IF t < Long THEN t + 1 ELSE Long

\* one time unit passes: not while the loop has a step to take, and not
\* past the moment a Timer is due
Tick ==
  /\ procState # "dead"
  /\ ~LoopReady
  /\ \A t \in timers : t.left > 0
  /\ timers' = {[t EXCEPT !.left = @ - 1] : t \in timers}
  /\ sinceArrive' = Older(sinceArrive)
  /\ idle' = Older(idle)
  /\ req' = Live
  /\ UNCHANGED <<env_auto_load_txt_modal, procState, slot, loaderCalls,
                 restart_timer, loopOwner, closeGaps>>

Next ==
  \/ StartupEvent
  \/ StartupLoadReturn
  \/ StartupLoadRaise
  \/ \E r \in Reqs : Arrive(r)
  \/ \E r \in Reqs, route \in Routes : check_activity(r, route)
  \/ \E r \in Reqs : top_info(r)
  \/ \E r \in Reqs, key \in Keys : check_req(r, key)
  \/ \E r \in Reqs, key \in Keys : load_model(r, key)
  \/ \E r \in Reqs : LoaderReturn(r)
  \/ \E r \in Reqs : LoaderRaise(r)
  \/ \E r \in Reqs, file \in Files : process_image(r, file)
  \/ \E r \in Reqs, file \in Files : clip_process_image(r, file)
  \/ \E r \in Reqs, raw \in ShapeResults : EngineReturn(r, raw)
  \/ \E r \in Reqs : EngineRaise(r)
  \/ TimerFire
  \/ Tick

Spec == Init /\ [][Next]_vars

\* ------------------------------------------------ the engine's results
\* The handlers' treatment of what the engines return, for every result up
\* to MaxDet detections: request 1, sent with the valid key to an inference
\* route of a process that has served nothing else, has loaded the model of
\* its kind and is in the engine call, with any part of the idle window
\* left on its timer.
EngineFile == [ok |-> TRUE, w |-> MaxSide, h |-> MaxSide]

InEngine(route, left) ==
  /\ procState = "serving"
  /\ slot = [k \in Kinds |->
               IF k = Kind(route) \/ (k = "ClipText" /\ env_auto_load_txt_modal)
                 THEN 1 ELSE 0]
  /\ loaderCalls = slot
  /\ restart_timer = 1
  /\ timers = {[id |-> 1, left |-> left]}
  /\ loopOwner = 1
  /\ req = [r \in Reqs |->
              IF r = 1
                THEN [NewReq EXCEPT
                        !.route = route,
                        !.key = api_auth_key,
                        !.file = IF route \in ImageRoutes THEN EngineFile ELSE NoFile,
                        !.pc = "engine",
                        !.auth = "ok",
                        !.reset = TRUE,
                        !.work = IF route = "/clip/txt" /\ env_auto_load_txt_modal
                                   THEN {"engine"} ELSE {"load", "engine"}]
                ELSE NewReq]
  /\ sinceArrive = Interval - left
  /\ closeGaps = TRUE
  /\ idle = Interval - left

InitNorm ==
  /\ env_auto_load_txt_modal \in BOOLEAN
  /\ \E route \in InferenceRoutes, left \in 0..Interval : InEngine(route, left)

NextNorm ==
  \/ \E r \in Reqs, raw \in EngineResults : EngineReturn(r, raw)
  \/ \E r \in Reqs : EngineRaise(r)

SpecNorm == InitNorm /\ [][NextNorm]_vars

TypeOK ==
  /\ procState \in {"starting", "startload", "serving", "dead"}
  /\ sinceArrive \in 0..Long
  /\ idle \in 0..Long
  /\ loopOwner \in 0..MaxReqs
  /\ restart_timer \in 0..MaxReqs
  /\ \A r \in Reqs : req[r].pc \in {"new", "done", "lost", "closed"} \cup InFlight

\* ------------------------------------------------------------ properties
PastAuth == {"loading", "read", "engine"}

\* C1: on every protected route a request gets past verify_header if and
\* only if its key equals the configured secret exactly; a request with
\* another key is answered 401 and has loaded no model, entered no engine
\* and called no restart_program.
C1_AuthExact ==
  \A r \in Reqs : req[r].route \in ProtectedRoutes =>
    /\ req[r].auth = "ok" => req[r].key = api_auth_key
    /\ req[r].auth = "rejected" =>
         /\ req[r].key # api_auth_key
         /\ req[r].pc = "done"
         /\ req[r].resp = "401"
    /\ req[r].pc \in PastAuth => req[r].auth = "ok"
    /\ req[r].resp \notin {"none", "401"} => req[r].auth = "ok"
    /\ req[r].auth # "ok" => req[r].work = {}

C1_Witness ==
  \E r, q \in Reqs :
    /\ req[r].route \in InferenceRoutes /\ req[r].resp = "401"
    /\ req[q].route \in InferenceRoutes /\ req[q].auth = "ok"
    /\ req[q].pc = "read"

\* loader calls of kind k that have not returned yet
LoadsInFlight(k) ==
  Cardinality({r \in Reqs : req[r].pc = "loading" /\ Kind(req[r].route) = k})
    + (IF k = "ClipText" /\ procState = "startload" THEN 1 ELSE 0)

\* C2 as stated: in one process lifetime the loader of each kind is invoked
\* at most once, and no request is in an engine whose slot is not loaded.
C2_LoaderInvokedOnce ==
  \A k \in Kinds :
    /\ loaderCalls[k] <= 1
    /\ \A r \in Reqs :
         req[r].pc = "engine" /\ Kind(req[r].route) = k => slot[k] # 0

\* C2 amended: in one process lifetime the loader calls of a kind never
\* overlap and none is in flight while the slot is loaded; a loaded slot
\* holds the instance of the latest call, so every earlier call raised and
\* at most one call returned an instance; no request is in an engine whose
\* slot is not loaded.
C2_SingleFlight ==
  \A k \in Kinds :
    /\ LoadsInFlight(k) <= 1
    /\ LoadsInFlight(k) = 1 => slot[k] = 0
    /\ slot[k] # 0 => slot[k] = loaderCalls[k]
    /\ \A r \in Reqs :
         req[r].pc = "engine" /\ Kind(req[r].route) = k => slot[k] # 0

C2_Witness ==
  \E r, q \in Reqs :
    /\ r # q
    /\ req[r].route = req[q].route
    /\ req[r].pc = "loading"
    /\ req[q].pc = "routed"
    /\ slot[Kind(req[q].route)] = 0

\* C3: every engine has at most one call in flight.
C3_OneCallPerEngine ==
  \A k \in Kinds :
    Cardinality({r \in Reqs : req[r].pc = "engine" /\ Kind(req[r].route) = k}) <= 1

C3_Witness ==
  \E r, q \in Reqs :
    /\ r # q
    /\ req[r].route = req[q].route
    /\ req[r].pc = "engine"
    /\ req[q].pc = "read"

\* C4 as stated, first half: as long as every request was sent less than
\* the idle window after the one before, the watchdog restarts the process
\* only when the latest request was sent a full idle window ago, so never
\* between two requests of the sequence.
C4_NoRestartWithinWindow ==
  [][TimerFire /\ closeGaps => sinceArrive >= server_restart_time]_vars

C8_BoundsBothRoutes ==
  \A r \in Reqs :
    (/\ req[r].route \in ImageRoutes
     /\ req[r].auth = "ok"
     /\ req[r].file.ok
     /\ OutOfRange(imdecode(req[r].file))) =>
       /\ "engine" \notin req[r].work
       /\ req[r].resp \in {"result", "softfail_exc", "softfail_bounds"} =>
            req[r].resp = "softfail_bounds"

\* C9 as stated: on every inference route a failure raised by the engine
\* call ends in the soft-fail response.
C9_EngineFailureSoft ==
  \A r \in Reqs : "raised" \in req[r].work => req[r].resp = "softfail_exc"

\* C10 as stated: a request inside an engine call leaves it only by the
\* return or the failure of the call.
C10_CallRunsToEnd ==
  [][\A r \in Reqs :
       req[r].pc = "engine" => req'[r].pc \in {"engine", "done"}]_vars

\* the next step of the handling of request q
StepOf(q) ==
  \/ \E route \in Routes : check_activity(q, route)
  \/ top_info(q)
  \/ \E key \in Keys : check_req(q, key)
  \/ \E key \in Keys : load_model(q, key)
  \/ \E file \in Files : process_image(q, file)
  \/ \E file \in Files : clip_process_image(q, file)

\* C11 as stated: while a request is inside an engine call, a request for
\* another route that is passed on to its handler can take its next step
\* without waiting for the call to return.
C11_OthersProceed ==
  \A r, q \in Reqs :
    (/\ req[r].pc = "engine"
     /\ req[q].pc \in {"routed", "read"}
     /\ req[q].route # req[r].route) => ENABLED StepOf(q)

\* C12: every request that is answered, whatever the answer (the page of
\* "/", 401, "pass", a result, a soft-fail or a 500), has been through
\* check_activity before, and a timer started there or by a later request
\* is waiting when the response is returned.
C12_ResetBeforeResponse ==
  \A r \in Reqs : req[r].resp # "none" =>
    /\ req[r].reset
    /\ \E t \in timers : t.id = restart_timer /\ t.left <= Interval

C12_Witness ==
  \E r \in Reqs :
    /\ req[r].resp = "401"
    /\ req[r].reset
    /\ timers = {[id |-> r, left |-> Interval]}

\* C13: a loaded slot keeps its instance in every step of the process; it
\* is emptied only by the replacement of the process image.
C13_LoadedStaysLoaded ==
  [][\A k \in Kinds :
       slot[k] # 0 => \/ slot'[k] = slot[k]
                      \/ procState' = "starting" /\ slot' = NoModels]_vars

C13_Witness ==
  \E r \in Reqs :
    /\ req[r].pc = "done"
    /\ "raised" \in req[r].work
    /\ "load" \notin req[r].work
    /\ slot[Kind(req[r].route)] = 1
    /\ loaderCalls[Kind(req[r].route)] = 1

\* the handler of an image route has the bytes of the upload in hand
FileRead(q) ==
  /\ q.route \in ImageRoutes
  /\ \/ q.pc = "engine"
     \/ q.pc = "done" /\ q.resp \in {"softfail_exc", "softfail_bounds", "result"}

\* C14 as stated: on /ocr and /clip/img an upload that cannot be decoded
\* fails at the decode step: the engine is not called for it, and the
\* response is the empty result with a message.
C14_DecodeFailsBeforeEngine ==
  \A r \in Reqs :
    (FileRead(req[r]) /\ imdecode(req[r].file).isNone) =>
      /\ "engine" \notin req[r].work
      /\ req[r].pc = "done"
      /\ req[r].resp = "softfail_exc"

\* C15: the texts, scores and boxes of every /ocr response have the same
\* length, whatever the engine returned; a response that carries a result
\* has one entry per raw detection, entry i built from detection i, and
\* three empty lists for the raw result None.
C15_OcrListsAligned ==
  \A r \in Reqs : (req[r].route = "/ocr" /\ req[r].pc = "done") =>
    LET b == req[r].body
        raw == req[r].raw
    IN /\ Len(b.texts) = Len(b.boxes)
       /\ Len(b.scores) = Len(b.boxes)
       /\ req[r].resp = "result" =>
            /\ raw.isNone => Len(b.boxes) = 0
            /\ ~raw.isNone =>
                 /\ Len(b.boxes) = Len(raw.dets)
                 /\ \A i \in 1..Len(raw.dets) :
                      /\ b.boxes[i] = Box(raw.dets[i])
                      /\ b.texts[i] = raw.dets[i].text
                      /\ b.scores[i] = format_2f(raw.dets[i].score)

C15_Witness ==
  \E r \in Reqs :
    /\ req[r].route = "/ocr"
    /\ req[r].pc = "done"
    /\ req[r].raw.dets = <<DetA, [DetA EXCEPT !.fields = 2]>>
    /\ trans_result(req[r].raw).raised
    /\ Len(trans_result(req[r].raw).texts) = 2
    /\ Len(trans_result(req[r].raw).scores) = 1
    /\ req[r].resp = "softfail_exc"

\* the number of digits after the decimal point of a rendered number
Decimals(rendered) == Len(rendered.frac)

\* C16 as stated: in every response that carries a result, each box field
\* and each score has exactly 2 digits after the decimal point and each
\* embedding component exactly 16.
C16_FixedDecimals ==
  \A r \in Reqs : (req[r].pc = "done" /\ req[r].resp = "result") =>
    LET b == req[r].body
    IN /\ \A i \in 1..Len(b.boxes) :
            /\ Decimals(b.boxes[i].x) = 2
            /\ Decimals(b.boxes[i].y) = 2
            /\ Decimals(b.boxes[i].width) = 2
            /\ Decimals(b.boxes[i].height) = 2
       /\ \A i \in 1..Len(b.scores) : Decimals(b.scores[i]) = 2
       /\ \A i \in 1..Len(b.vec) : Decimals(b.vec[i]) = 16

\* request q is an authenticated request whose loader returns in this step
LoadedBy(q, k) ==
  /\ q.pc = "loading"
  /\ q.auth = "ok"
  /\ q.key = api_auth_key
  /\ q.route \in InferenceRoutes
  /\ Kind(q.route) = k

\* C17: every process starts with all slots unloaded and keeps them so
\* until the startup hook is through; when it starts serving, ClipText is
\* loaded exactly if the eager-load flag is on and OCR and ClipImage are
\* not; after that a slot is loaded only by the loader an authenticated
\* request to the route of its kind waits for; requests to /, /check,
\* /restart and /restart_v2 call no loader.
C17_LoadOnlyOnDemand ==
  /\ [](/\ procState \in {"starting", "startload"} => slot = NoModels
        /\ \A r \in Reqs :
             req[r].route \in Routes \ InferenceRoutes => "load" \notin req[r].work)
  /\ [][/\ procState' = "starting" => slot' = NoModels
        /\ (procState # "serving" /\ procState' = "serving") =>
             /\ slot'["ClipText"] # 0 <=> env_auto_load_txt_modal
             /\ slot'["OCR"] = 0
             /\ slot'["ClipImage"] = 0
        /\ \A k \in Kinds :
             (procState = "serving" /\ slot[k] = 0 /\ slot'[k] # 0) =>
               \E r \in Reqs : LoadedBy(req[r], k) /\ req'[r].pc # "loading"]_vars

C17_Witness ==
  /\ procState = "serving"
  /\ env_auto_load_txt_modal
  /\ slot = [NoModels EXCEPT !["ClipText"] = 1]
  /\ req[1].pc = "closed"
  /\ restart_timer = 0
  /\ \E r \in Reqs : req[r].pc = "new"

\* C18 as stated: the handler of /restart_v2, run for a request with the
\* valid key, ends with the response {result: "pass"} delivered.
C18_RestartV2Answered ==
  [][\A r \in Reqs :
       (/\ req[r].pc = "routed"
        /\ req[r].route = "/restart_v2"
        /\ req'[r].auth = "ok") =>
         /\ req'[r].pc = "done"
         /\ req'[r].resp = "pass"]_vars

\* C19: an authenticated request to /ocr or /clip/img that is about to
\* read its upload, has read it, is in the engine or has been answered
\* with a result or a soft failure finds the slot of its kind loaded.
C19_LoadBeforeRead ==
  \A r \in Reqs :
    (/\ req[r].route \in ImageRoutes
     /\ req[r].auth = "ok"
     /\ (req[r].pc = "read" \/ FileRead(req[r]))) =>
      slot[Kind(req[r].route)] # 0

C19_Witness ==
  \E r \in Reqs :
    /\ req[r].route = "/ocr"
    /\ req[r].pc = "done"
    /\ req[r].resp = "softfail_bounds"
    /\ OutOfRange(imdecode(req[r].file))
    /\ "load" \in req[r].work
    /\ "engine" \notin req[r].work
    /\ slot["OCR"] = 1

====
